---- MODULE Spec2Model ----
(***************************************************************************)
(* Model of the RAG portfolio chat assistant: the vector store             *)
(* (lib/vector-store), the embedding provider wrapper (lib/embeddings)     *)
(* and the fixed-window rate limiter (lib/rate-limit), all of which keep   *)
(* their state in one Redis (Upstash) key-value store.                     *)
(*                                                                         *)
(* Every request handler is one action.  A handler's store and provider    *)
(* calls are composed in the order of its awaits; a call that can fail     *)
(* fails when the action's `fault` input names it.  Where two calls of     *)
(* initializePortfolioData run at the same time, each await of a call is   *)
(* an action of its own.                                                   *)
(*                                                                         *)
(* Abstractions: document metadata is carried verbatim by the code and     *)
(* takes no part in any decision, it is left out; SHA-256 is modelled as   *)
(* a collision-free digest; scores are exact reals (the squared cosine as  *)
(* a reduced fraction with a sign) instead of IEEE doubles.                *)
(***************************************************************************)
EXTENDS Integers, Sequences, FiniteSets, TLC

VARIABLES
    release,            \* which release of data/portfolio is deployed
    autoDeserialize,    \* whether the Redis client parses JSON values on read
    docIds,             \* Redis set 'documents:ids'
    embeddingKeys,      \* Redis keys 'embedding:<id>' : id -> None | Some(record)
    portfolioHash,      \* Redis key 'portfolio:hash' : None | Some(digest)
    queryCache,         \* Redis keys 'query:embedding:<hash>' : key -> None | Some(entry);
                        \* an entry is [value, ttl] and, as history, the query that wrote it
    res,                \* outcome of the last vector-store request
    calls,              \* the initialize calls in flight, one per server process
    rlLimit,            \* rate limiter: limit argument of checkRateLimit
    rlWindow,           \* rate limiter: windowSeconds argument
    rlKey,              \* Redis key 'ratelimit:<identifier>' : None | Some([value, ttl])
    rlRes,              \* outcome of the last checkRateLimit call
    rlAllowed,          \* checks answered allowed since the counter key was created
    rlFaulted,          \* a store call failed since the counter key was created
    checks              \* the checkRateLimit calls in flight, one per server process

vars == <<release, autoDeserialize, docIds, embeddingKeys, portfolioHash,
          queryCache, res, calls, rlLimit, rlWindow, rlKey, rlRes, rlAllowed, rlFaulted,
          checks>>

storeVars == <<release, autoDeserialize, docIds, embeddingKeys,
               portfolioHash, queryCache, res, calls>>

rlVars == <<rlLimit, rlWindow, rlKey, rlRes, rlAllowed, rlFaulted, checks>>

-----------------------------------------------------------------------------
(* Bounds *)

MaxLimit == 2
MaxRelease == 7
TickSeconds == 43200
MaxRateLimit == 3
MaxWindow == 3
MaxTexts == 2
RetryAfterHeader == 30
MaxCoord == 1
MaxDim == 2
MaxScored == 3
MaxConcurrentRelease == 3

(* Program constants *)

CacheTTL == 86400
ChatLimit == 3
ChatRateLimit == 10
ChatRateWindow == 60

-----------------------------------------------------------------------------
(* Optional values: null / undefined is the empty tuple *)

None == <<>>

Some(x) == <<x>>

IsSome(o) == Len(o) = 1

\* `const v = await value; Then(v)`: the value is computed once
Await(value, Then(_)) == CHOOSE r \in { Then(v) : v \in {value} } : TRUE

Min(a, b) == IF a <= b THEN a ELSE b

Max(a, b) == IF a >= b THEN a ELSE b

-----------------------------------------------------------------------------
(* Texts.  String.prototype.trim and toLowerCase on the texts of the model. *)

DocIdSet == {"a", "b"}

Queries == {"hello", "Hello"}

Trim(t) == IF t = " " THEN "" ELSE t

ToLowerCase(t) == IF t = "Hello" THEN "hello" ELSE t

Doc(id, content) == [id |-> id, content |-> content]

\* Successive releases of data/portfolio: one document; a second document;
\* its content changed to equal the first; the first blanked; the first
\* removed; every document removed; one document of blank content.
Releases ==
    << <<Doc("a", "hello")>>,
       <<Doc("a", "hello"), Doc("b", "world")>>,
       <<Doc("a", "hello"), Doc("b", "hello")>>,
       <<Doc("a", " "), Doc("b", "hello")>>,
       <<Doc("b", "hello")>>,
       <<>>,
       <<Doc("a", " ")>> >>

LastRelease == Min(MaxRelease, Len(Releases))

portfolioDocuments == Releases[release]

-----------------------------------------------------------------------------
(* embeddings.ts *)

\* the provider's (deterministic) answer for one trimmed text
ProviderEmbedding(t) ==
    CASE t = "hello" -> <<2, 1>>
      [] t = "Hello" -> <<1, 2>>
      [] OTHER       -> <<0, 1>>

generatePortfolioHash(content) == <<"sha256", content>>

\* mutant: the serialization keeps the ids and drops the content
JSONStringifyIdsOnly(docs) ==
    [i \in DOMAIN docs |-> <<"id", docs[i].id>>]

JSONStringifyDocs(docs) ==
    [i \in DOMAIN docs |-> <<"id", docs[i].id, "content", docs[i].content>>]

\* An HTTP answer of the provider, as far as the code looks at it: the status
\* (0: fetch itself rejected), whether the error message contains "quota" and
\* "limit: 0", whether the error details carry a QuotaFailure violation on a
\* free_tier metric (the message then names the metric), the retry-after header, how many embeddings a batch
\* answer holds relative to the request (delta), and whether a 200 body has
\* the expected structure.
Response(status, quota, limit0, freeTier, retryAfter, delta, body) ==
    [status |-> status, quota |-> quota, limit0 |-> limit0, freeTier |-> freeTier,
     retryAfter |-> retryAfter, delta |-> delta, body |-> body]

OkResponse == Response(200, FALSE, FALSE, FALSE, None, 0, "valid")

NetworkFailure == Response(0, FALSE, FALSE, FALSE, None, 0, "none")

DefaultRetryAfter == 60

\* A thrown value: its class, which message it carries, whether the message
\* contains "quota" / "limit: 0" / "free_tier", its `status` property (no Error
\* built here has one), the isQuotaNotEnabled mark, and retryAfter for a
\* RateLimitError.
Err(text, quota, limit0) ==
    [class |-> "Error", text |-> text, quota |-> quota, limit0 |-> limit0,
     freeTier |-> FALSE, status |-> None, isQuotaNotEnabled |-> FALSE, retryAfter |-> None]

RateLimitError(retryAfter) ==
    [class |-> "RateLimitError", text |-> "rate_limit", quota |-> FALSE,
     limit0 |-> FALSE, freeTier |-> FALSE, status |-> None,
     isQuotaNotEnabled |-> FALSE, retryAfter |-> Some(retryAfter)]

QuotaNotEnabled ==
    [Err("quota_not_enabled", TRUE, FALSE) EXCEPT !.isQuotaNotEnabled = TRUE]

QuotaExceeded == Err("quota_exceeded", TRUE, FALSE)

\* lines 38-99: what the try block of generateEmbedding throws (None: returns)
EmbedTry(resp) ==
    LET hasZeroLimit == resp.freeTier /\ resp.limit0
    IN  IF resp.status = 0 THEN Some(Err("network", FALSE, FALSE))
        ELSE IF resp.status # 200
        THEN IF hasZeroLimit \/ (resp.status = 429 /\ resp.limit0)
             THEN Some(QuotaNotEnabled)
             ELSE Some([Err("embedding_failed", resp.quota, resp.limit0)
                           EXCEPT !.freeTier = resp.freeTier])
        ELSE IF resp.body # "valid" THEN Some(Err("invalid_response", FALSE, FALSE))
        ELSE None

\* lines 100-147: the catch block, which reads `status` off the thrown value
EmbedCatch(error) ==
    IF error.isQuotaNotEnabled THEN error
    ELSE IF /\ error.status \in {Some(403), Some(429)}
            /\ (error.limit0 \/ (error.quota /\ error.freeTier))
         THEN Err("quota_not_enabled", TRUE, FALSE)
    ELSE IF error.status = Some(429) /\ ~error.limit0
         THEN RateLimitError(DefaultRetryAfter)
    ELSE IF error.status = Some(403) \/ (error.quota /\ ~error.limit0)
         THEN QuotaExceeded
    ELSE error

\* generateEmbedding(text): [ok, value, calls, error]
generateEmbedding(text, resp) ==
    IF Trim(text) = ""
    THEN [ok |-> FALSE, value |-> None, calls |-> 0,
          error |-> Some(Err("input", FALSE, FALSE))]
    ELSE LET thrown == EmbedTry(resp)
         IN  IF IsSome(thrown)
             THEN [ok |-> FALSE, value |-> None, calls |-> 1,
                   error |-> Some(EmbedCatch(thrown[1]))]
             ELSE [ok |-> TRUE, value |-> Some(ProviderEmbedding(Trim(text))),
                   calls |-> 1, error |-> None]

IsValidText(t) == Trim(t) # ""

\* the embeddings array of a batch answer for the texts sent
BatchEmbeddings(validTexts, delta) ==
    LET asked == [i \in DOMAIN validTexts |-> ProviderEmbedding(Trim(validTexts[i]))]
    IN  IF delta < 0 THEN SubSeq(asked, 1, Len(asked) - 1)
        ELSE IF delta > 0 THEN Append(asked, ProviderEmbedding(""))
        ELSE asked

\* lines 174-237: what the try block of generateEmbeddings throws; its catch
\* (238-252) rethrows every Error unchanged
BatchTry(resp) ==
    IF resp.status = 0 THEN Some(Err("network", FALSE, FALSE))
    ELSE IF resp.status = 429
         THEN Some(RateLimitError(IF IsSome(resp.retryAfter) THEN resp.retryAfter[1]
                                  ELSE DefaultRetryAfter))
    ELSE IF resp.status = 403 THEN Some(QuotaExceeded)
    ELSE IF resp.status # 200 THEN Some(Err("batch_failed", resp.quota, resp.limit0))
    ELSE IF resp.body # "valid" THEN Some(Err("invalid_response", FALSE, FALSE))
    ELSE None

\* mutant: one embedContent request per text instead of the batch request
generateEmbeddingsPerText(texts, resp) ==
    LET validTexts == SelectSeq(texts, IsValidText)
        thrown     == BatchTry(resp)
    IN  IF Len(texts) = 0 \/ Len(validTexts) = 0
        THEN [ok |-> FALSE, values |-> <<>>, calls |-> 0,
              error |-> Some(Err("input", FALSE, FALSE))]
        ELSE IF IsSome(thrown)
        THEN [ok |-> FALSE, values |-> <<>>, calls |-> Len(validTexts), error |-> thrown]
        ELSE [ok |-> TRUE, values |-> BatchEmbeddings(validTexts, resp.delta),
              calls |-> Len(validTexts), error |-> None]

\* mutant: a list of blank texts is sent to the provider as an empty batch
generateEmbeddingsNoFilter(texts, resp) ==
    LET validTexts == SelectSeq(texts, IsValidText)
        thrown     == BatchTry(resp)
    IN  IF Len(texts) = 0
        THEN [ok |-> FALSE, values |-> <<>>, calls |-> 0,
              error |-> Some(Err("input", FALSE, FALSE))]
        ELSE IF IsSome(thrown)
        THEN [ok |-> FALSE, values |-> <<>>, calls |-> 1, error |-> thrown]
        ELSE [ok |-> TRUE, values |-> BatchEmbeddings(validTexts, resp.delta),
              calls |-> 1, error |-> None]

\* generateEmbeddings(texts): [ok, values, calls, error]; a count that differs
\* from the request is logged (233-235) and the array returned as it came
generateEmbeddings(texts, resp) ==
    LET validTexts == SelectSeq(texts, IsValidText)
        thrown     == BatchTry(resp)
    IN  IF Len(texts) = 0 \/ Len(validTexts) = 0
        THEN [ok |-> FALSE, values |-> <<>>, calls |-> 0,
              error |-> Some(Err("input", FALSE, FALSE))]
        ELSE IF IsSome(thrown)
        THEN [ok |-> FALSE, values |-> <<>>, calls |-> 1, error |-> thrown]
        ELSE [ok |-> TRUE, values |-> BatchEmbeddings(validTexts, resp.delta),
              calls |-> 1, error |-> None]

\* the provider's answer a handler run with this failing call gets
ResponseFor(fault, at) == IF fault.at = at THEN fault.resp ELSE OkResponse

-----------------------------------------------------------------------------
(* The Redis store as one value, and the record a handler threads through  *)
(* its awaits: the store so far, whether an exception is propagating, and  *)
(* what was called.                                                        *)

Redis ==
    [ids |-> docIds, emb |-> embeddingKeys, hash |-> portfolioHash, cache |-> queryCache]

NewCall(db) ==
    [db |-> db, err |-> FALSE, error |-> None, batchCalls |-> 0, embedCalls |-> 0, initRuns |-> 0,
     initFailed |-> FALSE, idsReads |-> 0, embReads |-> 0, cacheHit |-> FALSE,
     queryEmbedding |-> None, scored |-> 0, results |-> <<>>, trace |-> <<>>]

\* the call reaches the step named
Log(c, step) == [c EXCEPT !.trace = Append(@, step)]

NoFault == [at |-> "none", k |-> 0, resp |-> OkResponse]

\* an exception propagates out of the call
Throw(c, error) == [c EXCEPT !.err = TRUE, !.error = Some(error)]

\* a rejected Redis command
StoreError == Err("store", FALSE, FALSE)

-----------------------------------------------------------------------------
(* vector-store: readiness checks *)

areEmbeddingsInitialized(db, fault) ==
    IF fault = "ids_check" THEN FALSE ELSE db.ids # {}

getPortfolioHash(db, fault) ==
    IF fault = "hash_read" THEN None ELSE db.hash

needsReembeddingNoCatch(db, docs, fault) ==
    LET currentHash == generatePortfolioHash(JSONStringifyDocs(docs))
        storedHash  == getPortfolioHash(db, fault)
    IN  IF fault = "hashing" THEN FALSE
        ELSE ~IsSome(storedHash) \/ storedHash[1] # currentHash

\* crypto.subtle.digest rejecting is caught by the function's own catch
needsReembedding(db, docs, fault) ==
    LET currentHash == generatePortfolioHash(JSONStringifyDocs(docs))
        storedHash  == getPortfolioHash(db, fault)
    IN  IF fault = "hashing" THEN TRUE
        ELSE ~IsSome(storedHash) \/ storedHash[1] # currentHash

-----------------------------------------------------------------------------
(* vector-store: storeDocuments / initializePortfolioData *)

\* JSON.stringify drops a field whose value is undefined: embeddings[i] beyond
\* the end of the returned array leaves a record without an embedding.
EmbeddingRecord(doc, embeddings, i) ==
    [embedding |-> IF i <= Len(embeddings) THEN Some(embeddings[i]) ELSE None,
     docId |-> doc.id, json |-> TRUE]

\* the commands queued on the pipeline, in order: set, sadd per document
PipelineCommands(docs, embeddings) ==
    [n \in 1..(2 * Len(docs)) |->
        LET i == (n + 1) \div 2
        IN  [cmd   |-> IF n % 2 = 1 THEN "set" ELSE "sadd",
             id    |-> docs[i].id,
             value |-> EmbeddingRecord(docs[i], embeddings, i)]]

\* mutant: the id is removed from the set when it is already a member
ApplyCommandToggle(db, c) ==
    IF c.cmd = "set"
    THEN [db EXCEPT !.emb[c.id] = Some(c.value)]
    ELSE [db EXCEPT !.ids = IF c.id \in @ THEN @ \ {c.id} ELSE @ \cup {c.id}]

\* mutant: the id replaces the set of known ids instead of joining it
ApplyCommandReplaceIds(db, c) ==
    IF c.cmd = "set"
    THEN [db EXCEPT !.emb[c.id] = Some(c.value)]
    ELSE [db EXCEPT !.ids = {c.id}]

ApplyCommand(db, c) ==
    IF c.cmd = "set"
    THEN [db EXCEPT !.emb[c.id] = Some(c.value)]
    ELSE [db EXCEPT !.ids = @ \cup {c.id}]

RECURSIVE ApplyCommands(_, _)
ApplyCommands(db, cmds) ==
    IF Len(cmds) = 0 THEN db
    ELSE ApplyCommands(ApplyCommand(db, Head(cmds)), Tail(cmds))

\* mutant: the fingerprint is written before the pipeline is executed
storeDocumentsHashFirst(c, docs, fault) ==
    Await(generateEmbeddings([i \in DOMAIN docs |-> docs[i].content],
                             ResponseFor(fault, "batch")), LAMBDA g :
    Await([c EXCEPT !.batchCalls = @ + g.calls], LAMBDA called :
        IF ~g.ok THEN Throw(called, g.error[1])
        ELSE IF fault.at = "hash_write" THEN Throw(called, StoreError)
        ELSE
        LET cmds    == PipelineCommands(docs, g.values)
            applied == IF fault.at = "pipeline"
                       THEN SubSeq(cmds, 1, Min(fault.k, Len(cmds)))
                       ELSE cmds
            hash    == generatePortfolioHash(JSONStringifyDocs(docs))
        IN  Await([called EXCEPT !.db.hash = Some(hash)], LAMBDA hashed :
            Await([hashed EXCEPT !.db = ApplyCommands(hashed.db, applied)],
                  LAMBDA written :
                IF fault.at = "pipeline" THEN Throw(written, StoreError)
                ELSE written))))

storeDocuments(c, docs, fault) ==
    Await(generateEmbeddings([i \in DOMAIN docs |-> docs[i].content],
                             ResponseFor(fault, "batch")), LAMBDA g :
    Await([c EXCEPT !.batchCalls = @ + g.calls], LAMBDA called :
        IF ~g.ok THEN Throw(called, g.error[1])
        ELSE
        LET cmds    == PipelineCommands(docs, g.values)
            applied == IF fault.at = "pipeline"
                       THEN SubSeq(cmds, 1, Min(fault.k, Len(cmds)))
                       ELSE cmds
            hash    == generatePortfolioHash(JSONStringifyDocs(docs))
        IN  Await([called EXCEPT !.db = ApplyCommands(called.db, applied)],
                  LAMBDA written :
                IF fault.at = "pipeline" \/ fault.at = "hash_write"
                THEN Throw(written, StoreError)
                ELSE [written EXCEPT !.db.hash = Some(hash)])))

\* mutant: a failed initialization is caught and the caller carries on
initializePortfolioDataSwallow(c, docs, fault) ==
    Await(Log([c EXCEPT !.initRuns = @ + 1], "initialize"), LAMBDA started :
    Await(IF Len(docs) = 0
          THEN Throw(started, Err("no_documents", FALSE, FALSE))
          ELSE storeDocuments(started, docs, fault), LAMBDA done :
        Log([done EXCEPT !.initFailed = done.err, !.err = FALSE, !.error = None],
            "initialized")))

initializePortfolioData(c, docs, fault) ==
    Await(Log([c EXCEPT !.initRuns = @ + 1], "initialize"), LAMBDA started :
    Await(IF Len(docs) = 0
          THEN Throw(started, Err("no_documents", FALSE, FALSE))
          ELSE storeDocuments(started, docs, fault), LAMBDA done :
        IF done.err THEN [done EXCEPT !.initFailed = TRUE]
        ELSE Log(done, "initialized")))

-----------------------------------------------------------------------------
(* vector-store: cosineSimilarity.  A score is the real number             *)
(* sign * sqrt(num / den), num / den in lowest terms.                      *)

ThresholdNum == 1
ThresholdDen == 2

RECURSIVE Gcd(_, _)
Gcd(a, b) == IF b = 0 THEN a ELSE Gcd(b, a % b)

RECURSIVE DotProduct(_, _, _)
DotProduct(vecA, vecB, i) ==
    IF i = 0 THEN 0 ELSE vecA[i] * vecB[i] + DotProduct(vecA, vecB, i - 1)

ZeroScore == [sign |-> 0, num |-> 0, den |-> 1]

\* mutant: vectors of different lengths are compared over the shorter length
cosineSimilarityNoLengthCheck(vecA, vecB) ==
    LET n == Min(Len(vecA), Len(vecB))
        dotProduct == DotProduct(vecA, vecB, n)
        normA == DotProduct(vecA, vecA, n)
        normB == DotProduct(vecB, vecB, n)
        sq    == dotProduct * dotProduct
        g     == Gcd(sq, normA * normB)
    IN  IF normA * normB = 0 \/ dotProduct = 0
        THEN [throws |-> FALSE, value |-> ZeroScore]
        ELSE [throws |-> FALSE,
              value |-> [sign |-> IF dotProduct > 0 THEN 1 ELSE -1,
                         num  |-> sq \div g,
                         den  |-> (normA * normB) \div g]]

\* [throws, value]
cosineSimilarity(vecA, vecB) ==
    IF Len(vecA) # Len(vecB) THEN [throws |-> TRUE, value |-> ZeroScore]
    ELSE
    LET dotProduct == DotProduct(vecA, vecB, Len(vecA))
        normA == DotProduct(vecA, vecA, Len(vecA))
        normB == DotProduct(vecB, vecB, Len(vecB))
        sq    == dotProduct * dotProduct
        g     == Gcd(sq, normA * normB)
    IN  IF normA * normB = 0 \/ dotProduct = 0
        THEN [throws |-> FALSE, value |-> ZeroScore]
        ELSE [throws |-> FALSE,
              value |-> [sign |-> IF dotProduct > 0 THEN 1 ELSE -1,
                         num  |-> sq \div g,
                         den  |-> (normA * normB) \div g]]

\* x > y on scores
ScoreGreater(x, y) ==
    IF x.sign # y.sign THEN x.sign > y.sign
    ELSE IF x.sign = 1 THEN x.num * y.den > y.num * x.den
    ELSE IF x.sign = -1 THEN x.num * y.den < y.num * x.den
    ELSE FALSE

\* r.score > 0.5
AboveThreshold(x) ==
    x.sign = 1 /\ x.num * ThresholdDen * ThresholdDen > x.den * ThresholdNum * ThresholdNum

-----------------------------------------------------------------------------
(* vector-store: searchSimilarDocuments *)

\* mutant: an id that is not in the configured set gets an empty content
getDocumentContentKeepOrphan(docs, docId) ==
    LET found == SelectSeq(docs, LAMBDA d : d.id = docId)
    IN  IF Len(found) = 0 THEN Some("")
        ELSE IF found[1].content = "" THEN None ELSE Some(found[1].content)

getDocumentContent(docs, docId) ==
    LET found == SelectSeq(docs, LAMBDA d : d.id = docId)
    IN  IF Len(found) = 0 \/ found[1].content = "" THEN None ELSE Some(found[1].content)

\* Array.prototype.sort((a, b) => b.score - a.score) is stable: x goes before
\* the first element with a strictly smaller score.
RECURSIVE InsertByScore(_, _)
InsertByScore(sorted, x) ==
    IF Len(sorted) = 0 THEN <<x>>
    ELSE IF ScoreGreater(x.score, Head(sorted).score) THEN <<x>> \o sorted
    ELSE <<Head(sorted)>> \o InsertByScore(Tail(sorted), x)

\* mutant: the similarities are left in the order they were read
Unsorted(s) == s

RECURSIVE SortByScore(_)
SortByScore(s) ==
    IF Len(s) = 0 THEN <<>>
    ELSE InsertByScore(SortByScore(SubSeq(s, 1, Len(s) - 1)), s[Len(s)])

Slice(s, limit) == SubSeq(s, 1, Min(limit, Len(s)))

FilterByScore(s) == SelectSeq(s, LAMBDA r : AboveThreshold(r.score))

\* mutant: the sorted list is not cut to limit
RankResultsNoSlice(similarities, limit) ==
    FilterByScore(SortByScore(similarities))

\* mutant: the list is cut to limit before it is sorted
RankResultsSliceFirst(similarities, limit) ==
    FilterByScore(SortByScore(Slice(similarities, limit)))

RankResults(similarities, limit) ==
    FilterByScore(Slice(SortByScore(similarities), limit))

\* the scoring loop over docIds[i..]: [throws, similarities]
RECURSIVE ScoreLoop(_, _, _, _, _, _)
ScoreLoop(db, docs, queryEmbedding, ids, i, acc) ==
    IF i > Len(ids) THEN [throws |-> FALSE, similarities |-> acc]
    ELSE
    LET docId   == ids[i]
        rawData == db.emb[docId]
    IN  IF \/ ~IsSome(rawData)
           \/ ~rawData[1].json
           \/ ~IsSome(rawData[1].embedding)
        THEN ScoreLoop(db, docs, queryEmbedding, ids, i + 1, acc)
        ELSE
        Await(cosineSimilarity(queryEmbedding, rawData[1].embedding[1]), LAMBDA sim :
        Await(getDocumentContent(docs, docId), LAMBDA content :
            IF sim.throws THEN [throws |-> TRUE, similarities |-> acc]
            ELSE IF ~IsSome(content)
            THEN ScoreLoop(db, docs, queryEmbedding, ids, i + 1, acc)
            ELSE ScoreLoop(db, docs, queryEmbedding, ids, i + 1,
                           Append(acc, [id |-> docId, content |-> content[1],
                                        score |-> sim.value]))))

QueryCacheKey(query) == generatePortfolioHash(ToLowerCase(Trim(query)))

\* a value written as a JSON string comes back as a string from a raw client
\* and as the parsed array from a client that deserializes automatically
CachedIsString(cached) == IsSome(cached) /\ ~autoDeserialize

\* lines 119-154: the try block around cache read, embedding and cache write;
\* its catch rethrows whatever was thrown
QueryEmbeddingStep(c0, query, fault) ==
    LET queryCacheKey == QueryCacheKey(query)
        c == Log(c0, "cache_read")
    IN  IF fault.at = "cache_read" THEN Throw(c, StoreError)
        ELSE
        LET cachedEmbedding == c.db.cache[queryCacheKey]
        IN  IF CachedIsString(cachedEmbedding)
            THEN [c EXCEPT !.queryEmbedding = Some(cachedEmbedding[1].value),
                           !.cacheHit = TRUE]
            ELSE
            Await(generateEmbedding(query, ResponseFor(fault, "embed")), LAMBDA e :
            Await(Log([c EXCEPT !.embedCalls = @ + e.calls], "embed"), LAMBDA called :
                IF ~e.ok THEN Throw(called, e.error[1])
                ELSE IF fault.at = "cache_write" THEN Throw(Log(called, "cache_write"), StoreError)
                ELSE [Log(called, "cache_write") EXCEPT
                        !.queryEmbedding = e.value,
                        !.db.cache[queryCacheKey] =
                            Some([value |-> e.value[1], ttl |-> CacheTTL,
                                  query |-> query])]))

\* lines 156-213: read the ids, read the records, score, rank
ScoreStep(c0, docs, limit, order, fault) ==
    LET c == Log(c0, "ids_read")
    IN
    IF fault = "ids_read" THEN Throw(c, StoreError)
    ELSE
    LET ids  == SelectSeq(order, LAMBDA d : d \in c.db.ids)
        read == [c EXCEPT !.idsReads = @ + 1]
    IN  IF Len(ids) = 0 THEN Throw(read, Err("no_embeddings", FALSE, FALSE))
        ELSE IF fault = "emb_read" THEN Throw(Log(read, "emb_read"), StoreError)
        ELSE
        Await(ScoreLoop(c.db, docs, c.queryEmbedding[1], ids, 1, <<>>), LAMBDA loop :
        Await(Log([read EXCEPT !.embReads = @ + 1], "emb_read"), LAMBDA got :
            IF loop.throws THEN Throw(got, Err("dimension", FALSE, FALSE))
            ELSE [got EXCEPT !.scored = Len(loop.similarities),
                             !.results = RankResults(loop.similarities, limit)]))

\* mutant: the query embedding is obtained first, the checks come after it
searchSimilarDocumentsEmbedFirst(db, docs, query, limit, order, fault) ==
    Await(QueryEmbeddingStep(NewCall(db), query, fault), LAMBDA q :
    Await(IF q.err THEN q ELSE Log(q, "initialized_check"), LAMBDA c0 :
    Await(areEmbeddingsInitialized(c0.db, fault.at), LAMBDA isInitialized :
    Await(IF ~c0.err /\ ~isInitialized THEN initializePortfolioData(c0, docs, fault)
          ELSE c0, LAMBDA c1 :
    Await(IF c1.err THEN c1
          ELSE IF needsReembedding(c1.db, docs, fault.at)
          THEN initializePortfolioData(Log(c1, "refresh_check"), docs, fault)
          ELSE Log(c1, "refresh_check"), LAMBDA c2 :
        IF c2.err THEN c2 ELSE ScoreStep(c2, docs, limit, order, fault.at))))))

searchSimilarDocuments(db, docs, query, limit, order, fault) ==
    Await(Log(NewCall(db), "initialized_check"), LAMBDA c0 :
    Await(areEmbeddingsInitialized(c0.db, fault.at), LAMBDA isInitialized :
    Await(IF ~isInitialized THEN initializePortfolioData(c0, docs, fault) ELSE c0,
          LAMBDA c1 :
    Await(IF c1.err THEN c1
          ELSE IF needsReembedding(c1.db, docs, fault.at)
          THEN initializePortfolioData(Log(c1, "refresh_check"), docs, fault)
          ELSE Log(c1, "refresh_check"), LAMBDA c2 :
    Await(IF c2.err THEN c2 ELSE QueryEmbeddingStep(c2, query, fault), LAMBDA c3 :
        IF c3.err THEN c3 ELSE ScoreStep(c3, docs, limit, order, fault.at))))))

-----------------------------------------------------------------------------
(* Inputs *)

\* SMEMBERS returns the members of a set in no particular order
Orders ==
    { s \in [1..Cardinality(DocIdSet) -> DocIdSet] :
        \A i, j \in DOMAIN s : i # j => s[i] # s[j] }

\* the order taken where nothing checked depends on the order of the members
SortedOrder == <<"a", "b">>

QueryKeys == { QueryCacheKey(q) : q \in Queries }

\* a failing answer of the provider: HTTP 500, nothing about quota
Unavailable == Response(500, FALSE, FALSE, FALSE, None, 0, "error")

Malformed == Response(200, FALSE, FALSE, FALSE, None, 0, "malformed")

\* the failing answers generateEmbedding tells apart
EmbedFailures ==
    {NetworkFailure, Malformed} \cup
    { Response(st, q, l, f, None, 0, "error") :
        st \in {403, 429, 500}, q \in BOOLEAN, l \in BOOLEAN, f \in BOOLEAN }

\* the failing answers generateEmbeddings tells apart
BatchFailures ==
    {NetworkFailure, Malformed} \cup
    { Response(st, q, FALSE, FALSE, r, 0, "error") :
        st \in {403, 429, 500}, q \in BOOLEAN, r \in {None, Some(RetryAfterHeader)} }

\* batch answers with as many, fewer or more embeddings than texts sent
BatchAnswers == { Response(200, FALSE, FALSE, FALSE, None, d, "valid") : d \in {-1, 0, 1} }

Texts == {"hello", "world", " "}

TextLists == UNION { [1..n -> Texts] : n \in 0..MaxTexts }

At(a) == [at |-> a, k |-> 0, resp |-> Unavailable]

\* a failed pipeline.exec() has run some prefix of its commands
PipelineFaults(docs) ==
    { [at |-> "pipeline", k |-> k, resp |-> Unavailable] : k \in 0..(2 * Len(docs)) }

InitFaults(docs) ==
    { At(a) : a \in {"none", "batch", "hash_write"} } \cup PipelineFaults(docs)

SearchFaults(docs) ==
    InitFaults(docs) \cup
    { At(a) : a \in {"ids_check", "hash_read", "cache_read", "embed", "cache_write",
                     "ids_read", "emb_read", "llm"} }

\* the failures of a chat request, with every answer the provider can fail with
ChatFaults ==
    { At(a) : a \in {"none", "cache_read", "ids_read"} }
    \cup { [at |-> "embed", k |-> 0, resp |-> r] : r \in EmbedFailures }
    \cup { [at |-> "batch", k |-> 0, resp |-> r] : r \in BatchFailures }
    \cup { [at |-> "llm", k |-> 0, resp |-> r] :
             r \in {Unavailable, [Unavailable EXCEPT !.quota = TRUE]} }

StatusFaults == {"none", "ids_check", "hash_read", "hashing"}

-----------------------------------------------------------------------------
(* Vector-store actions *)

Commit(c) ==
    /\ docIds' = c.db.ids
    /\ embeddingKeys' = c.db.emb
    /\ portfolioHash' = c.db.hash
    /\ queryCache' = c.db.cache

Outcome(c) == IF c.err THEN "error" ELSE "ok"

\* A run with a failing call is one in which something was thrown: when the
\* call named by `fault` is never reached, or its failure is caught on the
\* way, the run is the run without failure.
Failed(c, fault) == fault.at \in {"none", "ids_check", "hash_read"} \/ c.err

\* a live cache entry written by an earlier search for the same query text
CachedFor(entry, query) == IsSome(entry) /\ entry[1].query = query

StoreIsEmpty ==
    /\ docIds = {}
    /\ ~IsSome(portfolioHash)
    /\ \A d \in DocIdSet : ~IsSome(embeddingKeys[d])
    /\ \A k \in QueryKeys : ~IsSome(queryCache[k])

\* what a call of searchSimilarDocuments did, seen from outside
SearchRecord(c, query, limit, fault) ==
    [op |-> "search", docs |-> portfolioDocuments, query |-> query,
     limit |-> limit, fault |-> fault.at, status |-> Outcome(c),
     results |-> c.results, batchCalls |-> c.batchCalls,
     embedCalls |-> c.embedCalls, initRuns |-> c.initRuns,
     initFailed |-> c.initFailed, idsReads |-> c.idsReads,
     embReads |-> c.embReads, cacheHit |-> c.cacheHit,
     scored |-> c.scored, trace |-> c.trace, queryEmbedding |-> c.queryEmbedding,
     cachedBefore |-> CachedFor(queryCache[QueryCacheKey(query)], query),
     startedEmpty |-> StoreIsEmpty]

\* searchSimilarDocuments(query, limit) called by a request
Search(query, limit, order, fault) ==
    \E c \in {searchSimilarDocuments(Redis, portfolioDocuments, query, limit, order, fault)} :
        /\ Failed(c, fault)
        /\ Commit(c)
        /\ res' = SearchRecord(c, query, limit, fault)
        /\ UNCHANGED <<release, autoDeserialize, rlVars, calls>>

\* route.ts 153-170: streamText; what it throws is thrown on
StreamText(c, fault) ==
    IF fault.at = "llm"
    THEN Throw(c, Err("llm", fault.resp.quota, fault.resp.limit0))
    ELSE c

\* route.ts 171-214: the handler's catch block
ChatErrorResponse(error) ==
    IF error.class = "RateLimitError"
    THEN [http |-> 429, retryAfter |-> error.retryAfter]
    ELSE IF error.quota
    THEN [http |-> 503, retryAfter |-> None]
    ELSE [http |-> 500, retryAfter |-> None]

\* POST /api/chat for a request that passed the rate limit and the checks of
\* its body: searchSimilarDocuments(queryText.trim(), 3), streamText, and the
\* mapping of whatever was thrown to a response
Chat(query, order, fault) ==
    \E s \in {searchSimilarDocuments(Redis, portfolioDocuments, Trim(query),
                                      ChatLimit, order, fault)} :
    \E c \in {IF s.err THEN s ELSE StreamText(s, fault)} :
        /\ Failed(c, fault)
        /\ Commit(c)
        /\ res' = SearchRecord(s, Trim(query), ChatLimit, fault) @@
                  [error |-> c.error,
                   resp |-> fault.resp,
                   response |-> IF c.err THEN ChatErrorResponse(c.error[1])
                                ELSE [http |-> 200, retryAfter |-> None]]
        /\ UNCHANGED <<release, autoDeserialize, rlVars, calls>>

\* cosineSimilarity called on the two vectors at hand
CosineSimilarity ==
    /\ res.op = "vectors"
    /\ res' = [op |-> "cosine", vecA |-> res.vecA, vecB |-> res.vecB,
               out |-> cosineSimilarity(res.vecA, res.vecB)]
    /\ UNCHANGED <<release, autoDeserialize, docIds, embeddingKeys, portfolioHash,
                   queryCache, rlVars, calls>>

\* The stored record of a known id is lost or replaced from outside the
\* program: evicted, overwritten with text that is no JSON, with JSON that has
\* no embedding array, or with an embedding of another dimensionality.
DamagedRecords(id) ==
    { None,
      Some([embedding |-> None, docId |-> id, json |-> FALSE]),
      Some([embedding |-> None, docId |-> id, json |-> TRUE]),
      Some([embedding |-> Some(<<1>>), docId |-> id, json |-> TRUE]) }

Damage(id, record) ==
    /\ id \in docIds
    /\ embeddingKeys[id] # record
    /\ embeddingKeys' = [embeddingKeys EXCEPT ![id] = record]
    /\ res' = [op |-> "damage", id |-> id]
    /\ UNCHANGED <<release, autoDeserialize, docIds, portfolioHash, queryCache,
                   rlVars, calls>>

\* lines 210-213 applied to the list of scored records at hand
Rank ==
    /\ res.op = "scored"
    /\ res' = [op |-> "rank", similarities |-> res.similarities, limit |-> res.limit,
               out |-> RankResults(res.similarities, res.limit)]
    /\ UNCHANGED <<release, autoDeserialize, docIds, embeddingKeys, portfolioHash,
                   queryCache, rlVars, calls>>

\* generateEmbedding called on its own
EmbedOne(text, resp) ==
    /\ res' = [op |-> "embedOne", text |-> text, resp |-> resp,
               out |-> generateEmbedding(text, resp)]
    /\ UNCHANGED <<release, autoDeserialize, docIds, embeddingKeys, portfolioHash,
                   queryCache, rlVars, calls>>

\* generateEmbeddings called on its own
EmbedMany(texts, resp) ==
    /\ res' = [op |-> "embedMany", texts |-> texts, resp |-> resp,
               out |-> generateEmbeddings(texts, resp)]
    /\ UNCHANGED <<release, autoDeserialize, docIds, embeddingKeys, portfolioHash,
                   queryCache, rlVars, calls>>

\* scripts/initialize.ts main: initializePortfolioData(portfolioDocuments)
Initialize(fault) ==
    \E c \in {initializePortfolioData(NewCall(Redis), portfolioDocuments, fault)} :
        /\ Failed(c, fault)
        /\ Commit(c)
        /\ res' = [op |-> "init", docs |-> portfolioDocuments, fault |-> fault.at,
                   status |-> Outcome(c), batchCalls |-> c.batchCalls,
                   embedCalls |-> c.embedCalls,
                   repeated |-> (res.op = "init" /\ res.status = "ok"
                                 /\ res.docs = portfolioDocuments)]
        /\ UNCHANGED <<release, autoDeserialize, rlVars, calls>>

\* GET /api/initialize. Both checks catch their own errors and return a value,
\* so the handler's catch (HTTP 500) is never entered from a failed store read.
CheckStatus(fault) ==
    /\ res' = [op |-> "status", docs |-> portfolioDocuments, fault |-> fault,
               status |-> "ok", http |-> 200,
               initialized |-> areEmbeddingsInitialized(Redis, fault),
               needsUpdate |-> needsReembedding(Redis, portfolioDocuments, fault)]
    /\ UNCHANGED <<release, autoDeserialize, docIds, embeddingKeys, portfolioHash,
                   queryCache, rlVars, calls>>

\* a redeployment installs the next release of the document set
Deploy ==
    /\ release < LastRelease
    /\ release' = release + 1
    /\ UNCHANGED <<autoDeserialize, docIds, embeddingKeys, portfolioHash, queryCache,
                   res, rlVars, calls>>

\* time passes: Redis drops a key whose expiry is reached
ExpireAfter(entry, seconds) ==
    IF IsSome(entry) /\ entry[1].ttl > seconds
    THEN Some([entry[1] EXCEPT !.ttl = @ - seconds])
    ELSE None

Tick ==
    /\ \E k \in QueryKeys : IsSome(queryCache[k])
    /\ queryCache' = [k \in QueryKeys |-> ExpireAfter(queryCache[k], TickSeconds)]
    /\ res' = [op |-> "tick"]
    /\ UNCHANGED <<release, autoDeserialize, docIds, embeddingKeys, portfolioHash,
                   rlVars, calls>>

\* two server processes (edge function instances) share the store
Procs == {1, 2}

IdleCall == [pc |-> "idle", docs |-> <<>>, cmds |-> <<>>, batchCalls |-> 0]

\* no initialize call is in flight
NoCalls == calls = [p \in Procs |-> IdleCall]

IdleCheck == [pc |-> "idle", count |-> 0]

\* no checkRateLimit call is in flight
NoChecks == checks = [p \in Procs |-> IdleCheck]

RateLimitIdle ==
    /\ NoChecks
    /\ rlLimit = 1
    /\ rlWindow = 1
    /\ rlKey = None
    /\ rlRes = [op |-> "none"]
    /\ rlAllowed = 0
    /\ rlFaulted = FALSE

Init ==
    /\ release = 1
    /\ autoDeserialize \in BOOLEAN
    /\ docIds = {}
    /\ embeddingKeys = [d \in DocIdSet |-> None]
    /\ portfolioHash = None
    /\ queryCache = [k \in QueryKeys |-> None]
    /\ res = [op |-> "none"]
    /\ NoCalls
    /\ RateLimitIdle

Next ==
    \/ \E q \in Queries, fault \in SearchFaults(portfolioDocuments) :
          Chat(q, SortedOrder, fault)
    \/ \E fault \in InitFaults(portfolioDocuments) : Initialize(fault)
    \/ \E fault \in StatusFaults : CheckStatus(fault)
    \/ Deploy
    \/ Tick

Spec == Init /\ [][Next]_vars

\* searchSimilarDocuments called with any limit
NextRank ==
    \/ \E q \in Queries, limit \in 0..MaxLimit, order \in Orders :
          Search(q, limit, order, NoFault)
    \/ \E fault \in InitFaults(portfolioDocuments) : Initialize(fault)
    \/ Deploy
    \/ Tick

SpecRank == Init /\ [][NextRank]_vars

\* chat requests against every way the provider fails
NextChat ==
    \/ \E order \in Orders, fault \in ChatFaults : Chat("hello", order, fault)
    \/ Initialize(NoFault)
    \/ Deploy

SpecChat == Init /\ [][NextChat]_vars

\* the two embedding functions on every text and every answer
NextEmbed ==
    \/ \E text \in Texts \cup {""}, resp \in EmbedFailures \cup {OkResponse} :
          EmbedOne(text, resp)
    \/ \E texts \in TextLists, resp \in BatchFailures \cup BatchAnswers :
          EmbedMany(texts, resp)

SpecEmbed == Init /\ [][NextEmbed]_vars

Vectors == UNION { [1..n -> (0 - MaxCoord)..MaxCoord] : n \in 0..MaxDim }

\* any two small vectors are at hand
InitCosine ==
    /\ release = 1
    /\ autoDeserialize = FALSE
    /\ docIds = {}
    /\ embeddingKeys = [d \in DocIdSet |-> None]
    /\ portfolioHash = None
    /\ queryCache = [k \in QueryKeys |-> None]
    /\ \E vecA \in Vectors, vecB \in Vectors :
          res = [op |-> "vectors", vecA |-> vecA, vecB |-> vecB]
    /\ NoCalls
    /\ RateLimitIdle

NextCosine == CosineSimilarity

SpecCosine == InitCosine /\ [][NextCosine]_vars

\* scores below, at and above the threshold 0.5: -1, 0, 1/2, sqrt(1/2), 1
ScoreValues ==
    { [sign |-> -1, num |-> 1, den |-> 1], ZeroScore,
      [sign |-> 1, num |-> 1, den |-> 4], [sign |-> 1, num |-> 1, den |-> 2],
      [sign |-> 1, num |-> 1, den |-> 1] }

\* every list of up to MaxScored scored records; a record is named by its
\* position in the scoring order
ScoredLists ==
    UNION { { [i \in 1..n |-> [id |-> i, content |-> "hello", score |-> f[i]]] :
                f \in [1..n -> ScoreValues] } : n \in 0..MaxScored }

\* the scoring loop has left any list of scores, the caller gave any limit
InitSort ==
    /\ release = 1
    /\ autoDeserialize = FALSE
    /\ docIds = {}
    /\ embeddingKeys = [d \in DocIdSet |-> None]
    /\ portfolioHash = None
    /\ queryCache = [k \in QueryKeys |-> None]
    /\ \E similarities \in ScoredLists, limit \in 0..(MaxScored + 1) :
          res = [op |-> "scored", similarities |-> similarities, limit |-> limit]
    /\ NoCalls
    /\ RateLimitIdle

NextSort == Rank

SpecSort == InitSort /\ [][NextSort]_vars

\* searches over a store whose records get damaged
NextDamage ==
    \/ \E q \in Queries, order \in Orders : Search(q, ChatLimit, order, NoFault)
    \/ Initialize(NoFault)
    \/ Deploy
    \/ \E id \in DocIdSet : \E record \in DamagedRecords(id) : Damage(id, record)

SpecDamage == Init /\ [][NextDamage]_vars

-----------------------------------------------------------------------------
(* Concurrent initialization.  Two processes run initializePortfolioData   *)
(* at the same time, each on the document set of the release it was built  *)
(* from.  A call is the sequence of its awaits: the batch request to the   *)
(* provider, pipeline.exec() and the write of the fingerprint.  The        *)
(* pipeline is sent as one request but is no transaction: its commands run *)
(* in order, and commands of other clients may run between them.           *)

ConcurrentSets ==
    { Releases[r] : r \in 1..Min(MaxConcurrentRelease, Len(Releases)) }

InFlight(p) == calls[p].pc \in {"embed", "exec", "hash"}

\* initializePortfolioData(docs) is called in process p (lines 245-255)
StartInitialize(p, docs) ==
    /\ calls[p].pc = "idle"
    /\ Len(docs) > 0
    /\ calls' = [calls EXCEPT ![p] = [pc |-> "embed", docs |-> docs, cmds |-> <<>>,
                                      batchCalls |-> 0]]
    /\ res' = IF NoCalls
              THEN [op |-> "concurrent", before |-> Redis, overlapped |-> FALSE]
              ELSE [res EXCEPT !.overlapped = @ \/ (\E q \in Procs : InFlight(q))]
    /\ UNCHANGED <<release, autoDeserialize, docIds, embeddingKeys, portfolioHash,
                   queryCache, rlVars>>

\* line 59: the provider answers the batch request; lines 61-76 queue the commands
ProviderAnswers(p) ==
    /\ calls[p].pc = "embed"
    /\ \E g \in {generateEmbeddings([i \in DOMAIN calls[p].docs |-> calls[p].docs[i].content],
                                     OkResponse)} :
          calls' = [calls EXCEPT
                      ![p].pc = IF g.ok THEN "exec" ELSE "failed",
                      ![p].batchCalls = g.calls,
                      ![p].cmds = IF g.ok THEN PipelineCommands(calls[p].docs, g.values)
                                  ELSE <<>>]
    /\ UNCHANGED <<release, autoDeserialize, docIds, embeddingKeys, portfolioHash,
                   queryCache, res, rlVars>>

\* line 78: the store runs the next command of p's pipeline
PipelineCommand(p) ==
    /\ calls[p].pc = "exec"
    /\ \E db \in {ApplyCommand(Redis, Head(calls[p].cmds))} :
          /\ docIds' = db.ids
          /\ embeddingKeys' = db.emb
    /\ calls' = [calls EXCEPT ![p].cmds = Tail(@),
                              ![p].pc = IF Len(calls[p].cmds) = 1 THEN "hash" ELSE "exec"]
    /\ UNCHANGED <<release, autoDeserialize, portfolioHash, queryCache, res, rlVars>>

\* lines 81-83: the fingerprint of p's document set is written
WriteFingerprint(p) ==
    /\ calls[p].pc = "hash"
    /\ portfolioHash' = Some(generatePortfolioHash(JSONStringifyDocs(calls[p].docs)))
    /\ calls' = [calls EXCEPT ![p].pc = "done"]
    /\ UNCHANGED <<release, autoDeserialize, docIds, embeddingKeys, queryCache, res,
                   rlVars>>

\* every call has returned to its caller
CallsReturn ==
    /\ ~NoCalls
    /\ \A p \in Procs : ~InFlight(p)
    /\ calls' = [p \in Procs |-> IdleCall]
    /\ res' = [op |-> "none"]
    /\ UNCHANGED <<release, autoDeserialize, docIds, embeddingKeys, portfolioHash,
                   queryCache, rlVars>>

NextConcurrent ==
    \/ \E p \in Procs, docs \in ConcurrentSets : StartInitialize(p, docs)
    \/ \E p \in Procs : ProviderAnswers(p)
    \/ \E p \in Procs : PipelineCommand(p)
    \/ \E p \in Procs : WriteFingerprint(p)
    \/ CallsReturn

SpecConcurrent == Init /\ [][NextConcurrent]_vars

-----------------------------------------------------------------------------
(* rate-limit: checkRateLimit(identifier, limit, windowSeconds) for one    *)
(* identifier.  The counter key holds [value, ttl]; ttl is the number of   *)
(* seconds to its expiry, -1 when it has none.                             *)

RateLimitFaults == {"none", "get", "set", "incr", "ttl"}

\* redis.ttl(key): -2 when the key does not exist
RedisTtl(key) == IF IsSome(key) THEN key[1].ttl ELSE -2

\* redis.incr(key): a missing key is created at 1 with no expiry
RedisIncr(key) ==
    IF IsSome(key) THEN Some([key[1] EXCEPT !.value = @ + 1])
    ELSE Some([value |-> 1, ttl |-> -1])

Thrown(key) ==
    [key |-> key, threw |-> TRUE, failed |-> TRUE,
     result |-> [allowed |-> FALSE, remaining |-> 0, resetIn |-> 0, retryAfter |-> None]]

Returned(key, result) ==
    [key |-> key, threw |-> FALSE, failed |-> FALSE, result |-> result]

\* mutant: the counter is compared with > instead of >=
RateLimitBodyOffByOne(key, limit, windowSeconds, fault) ==
    IF fault = "get" THEN Thrown(key)
    ELSE
    LET count == IF IsSome(key) /\ key[1].value # 0 THEN key[1].value ELSE 0
    IN  IF count > limit
        THEN IF fault = "ttl" THEN Thrown(key)
             ELSE Returned(key, [allowed |-> FALSE, remaining |-> 0,
                                 resetIn |-> RedisTtl(key) * 1000,
                                 retryAfter |-> Some(RedisTtl(key))])
        ELSE IF (count = 0 /\ fault = "set") \/ (count # 0 /\ fault = "incr")
        THEN Thrown(key)
        ELSE
        LET written == IF count = 0
                       THEN Some([value |-> 1, ttl |-> windowSeconds])
                       ELSE RedisIncr(key)
        IN  IF fault = "ttl" THEN Thrown(written)
            ELSE Returned(written, [allowed |-> TRUE,
                                    remaining |-> Max(0, limit - (count + 1)),
                                    resetIn |-> RedisTtl(written) * 1000,
                                    retryAfter |-> None])

\* lines 26-54: the body of the try block
RateLimitBody(key, limit, windowSeconds, fault) ==
    IF fault = "get" THEN Thrown(key)
    ELSE
    LET count == IF IsSome(key) /\ key[1].value # 0 THEN key[1].value ELSE 0
    IN  IF count >= limit
        THEN IF fault = "ttl" THEN Thrown(key)
             ELSE Returned(key, [allowed |-> FALSE, remaining |-> 0,
                                 resetIn |-> RedisTtl(key) * 1000,
                                 retryAfter |-> Some(RedisTtl(key))])
        ELSE IF (count = 0 /\ fault = "set") \/ (count # 0 /\ fault = "incr")
        THEN Thrown(key)
        ELSE
        LET written == IF count = 0
                       THEN Some([value |-> 1, ttl |-> windowSeconds])
                       ELSE RedisIncr(key)
        IN  IF fault = "ttl" THEN Thrown(written)
            ELSE Returned(written, [allowed |-> TRUE,
                                    remaining |-> Max(0, limit - (count + 1)),
                                    resetIn |-> RedisTtl(written) * 1000,
                                    retryAfter |-> None])

\* mutant: no catch block, the exception leaves checkRateLimit
checkRateLimitNoCatch(key, limit, windowSeconds, fault) ==
    RateLimitBody(key, limit, windowSeconds, fault)

\* lines 55-63: the catch block fails open
checkRateLimit(key, limit, windowSeconds, fault) ==
    LET body == RateLimitBody(key, limit, windowSeconds, fault)
    IN  IF body.threw
        THEN [body EXCEPT !.threw = FALSE,
                          !.result = [allowed |-> TRUE, remaining |-> limit - 1,
                                      resetIn |-> windowSeconds * 1000,
                                      retryAfter |-> None]]
        ELSE body

CheckRateLimit(fault) ==
    \E r \in {checkRateLimit(rlKey, rlLimit, rlWindow, fault)} :
        /\ rlKey' = r.key
        /\ rlRes' = [op |-> "check", fault |-> fault, failed |-> r.failed,
                     threw |-> r.threw, result |-> r.result,
                     keyBefore |-> rlKey, keyAfter |-> r.key,
                     allowedBefore |-> rlAllowed,
                     faultedBefore |-> rlFaulted]
        /\ rlAllowed' = IF r.result.allowed /\ ~r.threw
                        THEN Min(rlAllowed + 1, rlLimit + 1)
                        ELSE rlAllowed
        /\ rlFaulted' = (rlFaulted \/ r.failed)
        /\ UNCHANGED <<rlLimit, rlWindow, checks, storeVars>>

\* one second passes; the counter key is dropped when its expiry is reached
RateLimitTick ==
    /\ IsSome(rlKey)
    /\ rlKey[1].ttl > 0
    /\ IF rlKey[1].ttl > 1
       THEN /\ rlKey' = Some([rlKey[1] EXCEPT !.ttl = @ - 1])
            /\ UNCHANGED <<rlAllowed, rlFaulted>>
       ELSE /\ rlKey' = None
            /\ rlAllowed' = 0
            /\ rlFaulted' = FALSE
    /\ UNCHANGED <<rlLimit, rlWindow, rlRes, checks, storeVars>>

InitRL ==
    /\ release = 1
    /\ autoDeserialize = TRUE
    /\ docIds = {}
    /\ embeddingKeys = [d \in DocIdSet |-> None]
    /\ portfolioHash = None
    /\ queryCache = [k \in QueryKeys |-> None]
    /\ res = [op |-> "none"]
    /\ NoCalls
    /\ rlLimit \in 1..MaxRateLimit
    /\ rlWindow \in 1..MaxWindow
    /\ rlKey = None
    /\ rlRes = [op |-> "none"]
    /\ rlAllowed = 0
    /\ rlFaulted = FALSE
    /\ NoChecks

NextRL ==
    \/ \E fault \in RateLimitFaults : CheckRateLimit(fault)
    \/ RateLimitTick

SpecRL == InitRL /\ [][NextRL]_vars

-----------------------------------------------------------------------------
(* Concurrent checks.  Two processes run checkRateLimit for the same       *)
(* identifier at the same time; each await of a check (get, set or incr,   *)
(* ttl) is one command on the store, and commands of the other process and *)
(* the expiry of the key may come between them.  No store call fails.      *)

\* line 27: checkRateLimit is called in process p
StartCheck(p) ==
    /\ checks[p].pc = "idle"
    /\ checks' = [checks EXCEPT ![p].pc = "get"]
    /\ UNCHANGED <<rlLimit, rlWindow, rlKey, rlRes, rlAllowed, rlFaulted, storeVars>>

\* lines 27-30: the counter is read and compared with the limit
ReadCounter(p) ==
    /\ checks[p].pc = "get"
    /\ \E count \in {IF IsSome(rlKey) /\ rlKey[1].value # 0 THEN rlKey[1].value ELSE 0} :
          checks' = [checks EXCEPT ![p] = [pc |-> IF count >= rlLimit THEN "denied"
                                                  ELSE "write",
                                           count |-> count]]
    /\ UNCHANGED <<rlLimit, rlWindow, rlKey, rlRes, rlAllowed, rlFaulted, storeVars>>

\* lines 41-45: set with the window as expiry after a count of 0 was read,
\* incr otherwise; the check is going to answer allowed
WriteCounter(p) ==
    /\ checks[p].pc = "write"
    /\ rlKey' = IF checks[p].count = 0
                THEN Some([value |-> 1, ttl |-> rlWindow])
                ELSE RedisIncr(rlKey)
    /\ rlAllowed' = Min(rlAllowed + 1, rlLimit + 1)
    /\ checks' = [checks EXCEPT ![p].pc = "allowed"]
    /\ UNCHANGED <<rlLimit, rlWindow, rlRes, rlFaulted, storeVars>>

\* lines 31-37 and 47-54: the ttl is read and the result returned
ReadTtl(p) ==
    /\ checks[p].pc \in {"denied", "allowed"}
    /\ rlRes' = [op |-> "check", by |-> p, count |-> checks[p].count,
                 key |-> rlKey,
                 result |-> IF checks[p].pc = "denied"
                            THEN [allowed |-> FALSE, remaining |-> 0,
                                  resetIn |-> RedisTtl(rlKey) * 1000,
                                  retryAfter |-> Some(RedisTtl(rlKey))]
                            ELSE [allowed |-> TRUE,
                                  remaining |-> Max(0, rlLimit - (checks[p].count + 1)),
                                  resetIn |-> RedisTtl(rlKey) * 1000,
                                  retryAfter |-> None]]
    /\ checks' = [checks EXCEPT ![p] = IdleCheck]
    /\ UNCHANGED <<rlLimit, rlWindow, rlKey, rlAllowed, rlFaulted, storeVars>>

NextRLConcurrent ==
    \/ \E p \in Procs : StartCheck(p)
    \/ \E p \in Procs : ReadCounter(p)
    \/ \E p \in Procs : WriteCounter(p)
    \/ \E p \in Procs : ReadTtl(p)
    \/ RateLimitTick

SpecRLConcurrent == InitRL /\ [][NextRLConcurrent]_vars

-----------------------------------------------------------------------------
(* POST /api/chat as a whole (route.ts 23-215), for one client identifier. *)
(* A request is the last message of its body, the referer header and the   *)
(* NODE_ENV of the deployment; the conversation holds that message only.   *)

Message(role, content, parts, text) ==
    [role |-> role, content |-> content, parts |-> parts, text |-> text]

\* no last message; a last message of the assistant; user messages carrying
\* their text as `content`, as `parts` or as `text`, blank, empty or missing
LastMessages ==
    { None,
      Some(Message("assistant", Some("hello"), None, None)),
      Some(Message("user", Some("hello"), None, None)),
      Some(Message("user", Some(" "), None, None)),
      Some(Message("user", Some(""), Some(<<"hello">>), None)),
      Some(Message("user", None, Some(<<"hello">>), None)),
      Some(Message("user", None, Some(<<>>), None)),
      Some(Message("user", None, None, Some("hello"))),
      Some(Message("user", None, None, None)),
      Some(Message("user", Some("hello"), Some(<<>>), None)),
      Some(Message("user", Some(" "), Some(<<"hello">>), None)) }

Referers == {None, Some("allowed"), Some("other")}

Requests ==
    [last : LastMessages, referer : Referers, production : BOOLEAN]

\* textParts.join('') for the text parts of a message (at most one here)
JoinParts(parts) == IF Len(parts) = 0 THEN "" ELSE parts[1]

\* lines 60-70: content first, then parts, then text
QueryText(m) ==
    IF IsSome(m.content) /\ m.content[1] # "" THEN m.content[1]
    ELSE IF IsSome(m.parts) THEN JoinParts(m.parts[1])
    ELSE IF IsSome(m.text) /\ m.text[1] # "" THEN m.text[1]
    ELSE ""

\* lines 122-134: parts first, then content, then text
TransformedContent(m) ==
    IF IsSome(m.parts) THEN JoinParts(m.parts[1])
    ELSE IF IsSome(m.content) /\ m.content[1] # "" THEN m.content[1]
    ELSE IF IsSome(m.text) /\ m.text[1] # "" THEN m.text[1]
    ELSE ""

\* line 87: !referer || !referer.includes(allowedDomain)
RefererAllowed(referer) == referer = Some("allowed")

\* mutant: the referer is not looked at
EarlyReturnNoReferer(req, allowed) ==
    IF ~allowed THEN 429
    ELSE IF ~IsSome(req.last) \/ req.last[1].role # "user" THEN 400
    ELSE IF Trim(QueryText(req.last[1])) = "" THEN 400
    ELSE 0

\* lines 29-90: the status of the response returned before the search, 0 when
\* the handler goes on
EarlyReturn(req, allowed) ==
    IF ~allowed THEN 429
    ELSE IF ~IsSome(req.last) \/ req.last[1].role # "user" THEN 400
    ELSE IF Trim(QueryText(req.last[1])) = "" THEN 400
    ELSE IF req.production /\ ~RefererAllowed(req.referer) THEN 401
    ELSE 0

\* lines 94-214: search, the check of the transformed messages, streamText,
\* and the mapping of what was thrown: [c, http, llmCalls]
Answer(req, db, docs, order, fault) ==
    Await(searchSimilarDocuments(db, docs, Trim(QueryText(req.last[1])), ChatLimit,
                                 order, fault), LAMBDA s :
        IF s.err
        THEN [c |-> s, http |-> ChatErrorResponse(s.error[1]).http, llmCalls |-> 0]
        ELSE IF Trim(TransformedContent(req.last[1])) = ""
        THEN [c |-> s, http |-> 400, llmCalls |-> 0]
        ELSE IF fault.at = "llm"
        THEN [c |-> StreamText(s, fault),
              http |-> ChatErrorResponse(StreamText(s, fault).error[1]).http,
              llmCalls |-> 1]
        ELSE [c |-> s, http |-> 200, llmCalls |-> 1])

PostFaults == { At(a) : a \in {"none", "llm"} }

\* the store calls of the limiter succeed here; their failure is CheckRateLimit's
Post(req, fault) ==
    \E r \in {checkRateLimit(rlKey, ChatRateLimit, ChatRateWindow, "none")} :
    \E early \in {EarlyReturn(req, r.result.allowed)} :
        /\ rlKey' = r.key
        /\ rlRes' = [op |-> "check", fault |-> "none", failed |-> r.failed,
                     threw |-> r.threw, result |-> r.result,
                     keyBefore |-> rlKey, keyAfter |-> r.key,
                     allowedBefore |-> rlAllowed,
                     faultedBefore |-> rlFaulted]
        /\ rlAllowed' = IF r.result.allowed /\ ~r.threw
                        THEN Min(rlAllowed + 1, rlLimit + 1)
                        ELSE rlAllowed
        /\ rlFaulted' = (rlFaulted \/ r.failed)
        /\ IF early # 0
           THEN /\ res' = [op |-> "post", req |-> req, http |-> early,
                           searched |-> FALSE, batchCalls |-> 0, embedCalls |-> 0,
                           llmCalls |-> 0]
                /\ UNCHANGED <<docIds, embeddingKeys, portfolioHash, queryCache>>
           ELSE \E a \in {Answer(req, Redis, portfolioDocuments, SortedOrder, fault)} :
                /\ Failed(a.c, fault)
                /\ Commit(a.c)
                /\ res' = [op |-> "post", req |-> req, http |-> a.http,
                           searched |-> TRUE, batchCalls |-> a.c.batchCalls,
                           embedCalls |-> a.c.embedCalls, llmCalls |-> a.llmCalls]
        /\ UNCHANGED <<release, autoDeserialize, rlLimit, rlWindow, calls, checks>>

\* the limiter is the one of the route: 10 requests per 60 seconds
InitPost ==
    /\ release = 1
    /\ autoDeserialize = FALSE
    /\ docIds = {}
    /\ embeddingKeys = [d \in DocIdSet |-> None]
    /\ portfolioHash = None
    /\ queryCache = [k \in QueryKeys |-> None]
    /\ res = [op |-> "none"]
    /\ NoCalls
    /\ rlLimit = ChatRateLimit
    /\ rlWindow = ChatRateWindow
    /\ rlKey = None
    /\ rlRes = [op |-> "none"]
    /\ rlAllowed = 0
    /\ rlFaulted = FALSE
    /\ NoChecks

\* chat requests of every shape, within one rate-limit window
NextPost ==
    \E req \in Requests, fault \in PostFaults : Post(req, fault)

SpecPost == InitPost /\ [][NextPost]_vars

-----------------------------------------------------------------------------
(* Properties *)

ScoreAboveHalf(x) == x.sign = 1 /\ 4 * x.num > x.den

SearchReturned == res.op = "search" /\ res.status = "ok"

\* C1: a search that returns successfully returns at most `limit` entries and
\* every returned score is strictly greater than 0.5.
C1_SearchBounded ==
    SearchReturned =>
        /\ Len(res.results) <= res.limit
        /\ \A i \in DOMAIN res.results : ScoreAboveHalf(res.results[i].score)

\* two records scored, both above the threshold, one cut by the limit
C1_Witness ==
    /\ SearchReturned
    /\ res.scored = 2
    /\ res.limit = 1
    /\ Len(res.results) = 1

C3_FingerprintRoundTrip ==
    [][ ( /\ res.op = "init" /\ res.status = "ok"
          /\ res'.op = "status" /\ res'.fault \notin {"hash_read", "hashing"} )
        => (res'.needsUpdate = (portfolioDocuments' # res.docs)) ]_vars

\* both answers are observed after a successful initialize
C3_Witness ==
    /\ res.op = "status"
    /\ res.fault = "none"
    /\ ~res.needsUpdate
    /\ res.initialized

\* C4: a successful initialize(D) directly after a successful initialize(D)
\* leaves the known ids, the embedding records and the fingerprint unchanged.
C4_InitializeIdempotent ==
    [][ ( /\ res.op = "init" /\ res.status = "ok"
          /\ res'.op = "init" /\ res'.status = "ok"
          /\ res'.docs = res.docs )
        => ( /\ docIds' = docIds
             /\ embeddingKeys' = embeddingKeys
             /\ portfolioHash' = portfolioHash ) ]_vars

\* initialize has succeeded twice in a row on the same document set
C4_Witness ==
    /\ res.op = "init"
    /\ res.status = "ok"
    /\ res.repeated
    /\ Len(res.docs) = 2

\* C5 as stated: a search that gets as far as the query cache, whose query was
\* cached by an earlier search, the entry not yet expired, reads the cached
\* vector and makes no single-text provider call.
C5_CachedQuerySingleCall ==
    ( /\ res.op = "search"
      /\ res.fault = "none"
      /\ ~res.initFailed
      /\ res.cachedBefore )
        => (res.embedCalls = 0 /\ res.cacheHit)

\* C6 as stated: a failed read or write of the query-cache key does not fail
\* the search, which goes on to read and score the stored embeddings.
C6_CacheBestEffort ==
    ( /\ res.op = "search"
      /\ res.fault \in {"cache_read", "cache_write"}
      /\ ~res.initFailed )
        => (res.status = "ok" /\ res.embReads = 1)

\* C7: when the initialize run by search fails, search fails, returns nothing,
\* makes no query-embedding call and reads neither ids nor stored embeddings.
C7_InitFailurePropagates ==
    (res.op = "search" /\ res.initFailed) =>
        /\ res.status = "error"
        /\ res.results = <<>>
        /\ res.embedCalls = 0
        /\ ~res.cacheHit
        /\ res.idsReads = 0
        /\ res.embReads = 0

\* the refresh failed while older embeddings were there to fall back on
C7_Witness ==
    /\ res.op = "search"
    /\ res.initFailed
    /\ res.fault = "batch"
    /\ ~res.startedEmpty
    /\ docIds # {}

\* C8 as stated: a search on an empty store, nothing failing, initializes
\* exactly once with one batch call, and returns the document whose content
\* equals the query.
C8_AutoBootstrap ==
    ( /\ SearchReturned
      /\ res.startedEmpty
      /\ res.fault = "none" )
        => /\ res.initRuns = 1
           /\ res.batchCalls = 1
           /\ (\E i \in DOMAIN res.docs : res.docs[i].content = res.query)
                => (\E j \in DOMAIN res.results : res.results[j].content = res.query)

\* the part of C8 that holds: exactly one initialize, one batch call
C8_InitializedOnce ==
    ( /\ SearchReturned
      /\ res.startedEmpty
      /\ res.fault = "none" )
        => /\ res.initRuns = 1
           /\ res.batchCalls = 1

C10_FailOpen ==
    (rlRes.op = "check" /\ rlRes.failed) =>
        (rlRes.result.allowed /\ ~rlRes.threw)

\* the TTL read fails for an identifier that is over its limit
C10_Witness ==
    /\ rlRes.op = "check"
    /\ rlRes.failed
    /\ rlRes.fault = "ttl"
    /\ IsSome(rlRes.keyBefore)
    /\ rlRes.keyBefore[1].value >= rlLimit
    /\ rlRes.result.allowed

\* C11: the readiness checks never throw. isInitialized is true iff the ids set
\* is non-empty and its read succeeded; needsReembedding is true iff the
\* fingerprint read or the hashing failed, no fingerprint is stored, or the
\* stored fingerprint differs from the hash of the configured document set.
C11_ReadinessFailSafe ==
    res.op = "status" =>
        /\ res.status = "ok"
        /\ res.initialized = (res.fault # "ids_check" /\ docIds # {})
        /\ res.needsUpdate =
              ( \/ res.fault \in {"hash_read", "hashing"}
                \/ portfolioHash = None
                \/ portfolioHash # Some(generatePortfolioHash(JSONStringifyDocs(res.docs))) )

\* the hashing failed although the stored fingerprint is the current one
C11_Witness ==
    /\ res.op = "status"
    /\ res.fault = "hashing"
    /\ res.needsUpdate
    /\ docIds # {}
    /\ portfolioHash = Some(generatePortfolioHash(JSONStringifyDocs(res.docs)))

\* C17 as stated: a failed store read makes the status endpoint answer 500 with
\* initialized = false and needsUpdate = true; otherwise it answers 200 with
\* the values of the two checks.
C17_StatusEndpoint ==
    res.op = "status" =>
        IF res.fault \in {"ids_check", "hash_read"}
        THEN res.http = 500 /\ ~res.initialized /\ res.needsUpdate
        ELSE res.http = 200

HasContent(docs) == \E i \in DOMAIN docs : IsValidText(docs[i].content)

\* C12 as stated: one initialize on a non-empty document set makes exactly one
\* batch provider request and no single-text request.
C12_ExactlyOneBatch ==
    (res.op = "init" /\ Len(res.docs) > 0)
        => (res.batchCalls = 1 /\ res.embedCalls = 0)

\* C12 amended: one initialize makes no single-text request and at most one
\* batch request: exactly one when some document has non-blank content, none
\* when every content is blank (it then fails before reaching the provider).
C12_OneBatchIfContent ==
    res.op = "init" =>
        /\ res.embedCalls = 0
        /\ (Len(res.docs) > 0 /\ HasContent(res.docs)) => res.batchCalls = 1
        /\ ~HasContent(res.docs) => (res.batchCalls = 0 /\ res.status = "error")

\* two documents were initialized with one batch request
C12_Witness ==
    /\ res.op = "init"
    /\ res.status = "ok"
    /\ Len(res.docs) = 2
    /\ res.batchCalls = 1
    /\ docIds = {"a", "b"}

\* the "quota not enabled" signature of a provider answer (lines 63-65, 75)
ZeroLimitSignature(resp) ==
    (resp.freeTier /\ resp.limit0) \/ (resp.status = 429 /\ resp.limit0)

EmbedOneFailed == res.op = "embedOne" /\ IsValidText(res.text) /\ ~res.out.ok

\* C13 as stated: embedOne fails with RateLimitError, carrying retryAfter,
\* whenever the provider answers 429 without the zero-limit signature.
C13_RateLimitOn429 ==
    ( /\ res.op = "embedOne"
      /\ IsValidText(res.text)
      /\ res.resp.status = 429
      /\ ~ZeroLimitSignature(res.resp) )
        => /\ ~res.out.ok
           /\ res.out.error[1].class = "RateLimitError"
           /\ IsSome(res.out.error[1].retryAfter)

\* C14 as stated: embedOne fails with the quota-exceeded error on HTTP 403 and
\* on a message containing "quota", the zero-limit signature and plain
\* throttling apart; every other provider failure gives the generic error.
C14_QuotaClassification ==
    (EmbedOneFailed /\ ~ZeroLimitSignature(res.resp) /\ res.resp.status # 429)
        => IF res.resp.status = 403 \/ (res.resp.quota /\ ~res.resp.limit0)
           THEN res.out.error[1] = QuotaExceeded
           ELSE /\ res.out.error[1].class = "Error"
                /\ res.out.error[1].text \in
                      {"embedding_failed", "network", "invalid_response"}

\* C15 as stated: embedMany returns one vector per non-blank text, in their
\* order, and fails when the provider's answer holds another number of them.
C15_OnePerText ==
    (res.op = "embedMany" /\ res.out.ok) =>
        LET validTexts == SelectSeq(res.texts, IsValidText)
        IN  /\ Len(res.out.values) = Len(validTexts)
            /\ \A i \in DOMAIN validTexts :
                  res.out.values[i] = ProviderEmbedding(Trim(validTexts[i]))

\* C18: embedMany on an empty list, or on a list of blank texts only, fails
\* with the input error and makes no provider call.
C18_EmptyInput ==
    (res.op = "embedMany" /\ SelectSeq(res.texts, IsValidText) = <<>>) =>
        /\ ~res.out.ok
        /\ res.out.calls = 0
        /\ res.out.error = Some(Err("input", FALSE, FALSE))
        /\ res.out.values = <<>>

\* a list of two blank texts was refused although the provider would answer
C18_Witness ==
    /\ res.op = "embedMany"
    /\ res.texts = <<" ", " ">>
    /\ res.resp = OkResponse
    /\ ~res.out.ok
    /\ res.out.calls = 0

ChatFailed == res.op = "search" /\ "response" \in DOMAIN res /\ IsSome(res.error)

\* the failing call was reached, and the provider's answer to it reports a
\* quota problem
QuotaReported ==
    /\ \/ res.fault = "embed" /\ res.embedCalls > 0
       \/ res.fault = "batch" /\ res.batchCalls > 0
       \/ res.fault = "llm" /\ res.status = "ok"
    /\ \/ res.resp.status = 403
       \/ res.resp.quota
       \/ ZeroLimitSignature(res.resp)

\* C16 as stated: a failed retrieval or LLM call is answered 429 with
\* Retry-After for a RateLimitError, 503 when the provider reported quota
\* exhaustion, 500 otherwise.
C16_ChatErrorMapping ==
    ChatFailed =>
        IF res.error[1].class = "RateLimitError"
        THEN res.response.http = 429 /\ IsSome(res.response.retryAfter)
        ELSE IF QuotaReported
        THEN res.response.http = 503
        ELSE res.response.http = 500

\* the part of C16 that holds: the answer follows the class and the message
\* of what was thrown, and differs from C16 only for a 403 on the query
\* embedding, which generateEmbedding does not classify
C16_MappingByError ==
    ChatFailed =>
        /\ res.response = ChatErrorResponse(res.error[1])
        /\ ~C16_ChatErrorMapping
              => (res.fault = "embed" /\ res.resp.status = 403 /\ res.response.http = 500)

IsZeroVector(v) == \A i \in DOMAIN v : v[i] = 0

\* C19: on two vectors of equal length of which one has norm 0,
\* cosineSimilarity returns exactly 0 and raises nothing; on two vectors of
\* different lengths it throws and returns nothing.
C19_ZeroAndMismatch ==
    res.op = "cosine" =>
        /\ ( /\ Len(res.vecA) = Len(res.vecB)
             /\ (IsZeroVector(res.vecA) \/ IsZeroVector(res.vecB)) )
              => (~res.out.throws /\ res.out.value = ZeroScore)
        /\ Len(res.vecA) # Len(res.vecB) => res.out.throws
        /\ Len(res.vecA) = Len(res.vecB) => ~res.out.throws

\* a zero vector was compared with a non-zero vector of the same length
C19_Witness ==
    /\ res.op = "cosine"
    /\ res.vecA = <<0, 0>>
    /\ res.vecB = <<1, 0>>
    /\ ~res.out.throws
    /\ res.out.value = ZeroScore

\* a second case of C19: the lengths differ and the call throws
C19_MismatchWitness ==
    /\ res.op = "cosine"
    /\ Len(res.vecA) = 1
    /\ Len(res.vecB) = 2
    /\ res.out.throws

\* the known ids whose stored record is damaged in the way named
DamagedIds(kind) ==
    { id \in docIds :
        CASE kind = "missing"      -> ~IsSome(embeddingKeys[id])
          [] kind = "unparseable"  -> IsSome(embeddingKeys[id]) /\ ~embeddingKeys[id][1].json
          [] kind = "no_embedding" -> /\ IsSome(embeddingKeys[id])
                                      /\ embeddingKeys[id][1].json
                                      /\ ~IsSome(embeddingKeys[id][1].embedding)
          [] kind = "dimension"    -> /\ IsSome(embeddingKeys[id])
                                      /\ IsSome(embeddingKeys[id][1].embedding)
                                      /\ Len(embeddingKeys[id][1].embedding[1]) # 2 }

BadIds == UNION { DamagedIds(kind) : kind \in {"missing", "unparseable", "no_embedding", "dimension"} }

\* the ids search is to score: known, record intact, content in the code
ScorableIds ==
    { id \in docIds \ BadIds : \E i \in DOMAIN res.docs : res.docs[i].id = id }

SearchedOverBadRecord ==
    /\ res.op = "search"
    /\ res.fault = "none"
    /\ ~res.initFailed
    /\ res.docs = portfolioDocuments
    /\ BadIds # {}

\* C20 as stated: a search over a store with a bad record (missing,
\* unparseable, without embedding array, of another dimensionality) succeeds
\* and scores the remaining records.
C20_BadRecordSkipped ==
    SearchedOverBadRecord =>
        (res.status = "ok" /\ res.scored = Cardinality(ScorableIds))

\* the part of C20 that holds: records that are missing, unparseable or
\* without embedding array are skipped
C20_UnreadableSkipped ==
    (SearchedOverBadRecord /\ DamagedIds("dimension") = {}) =>
        (res.status = "ok" /\ res.scored = Cardinality(ScorableIds))

\* the ids of a document list
IdsOf(docs) == { docs[i].id : i \in DOMAIN docs }

\* C21: every document a search returns has an id of the configured document
\* set and carries the content that set gives it; a known id that is not in
\* the configured set is never returned.
C21_ResultsFromConfiguredSet ==
    SearchReturned =>
        \A j \in DOMAIN res.results :
            /\ res.results[j].id \in IdsOf(res.docs)
            /\ \E i \in DOMAIN res.docs :
                  /\ res.docs[i].id = res.results[j].id
                  /\ res.docs[i].content = res.results[j].content

\* a search returned a document while an orphan of an earlier release, whose
\* stored vector equals the query's, was among the known ids
C21_Witness ==
    /\ SearchReturned
    /\ res.docs = portfolioDocuments
    /\ docIds \ IdsOf(res.docs) # {}
    /\ \E id \in docIds \ IdsOf(res.docs) :
          /\ IsSome(embeddingKeys[id])
          /\ embeddingKeys[id][1].embedding = Some(ProviderEmbedding(Trim(res.query)))
    /\ Len(res.results) = 1

\* the ranking as specified: sort descending, drop the scores <= 0.5, keep
\* the first `limit`
RankReference(similarities, limit) ==
    Slice(SelectSeq(SortByScore(similarities), LAMBDA r : ScoreAboveHalf(r.score)), limit)

\* C22: cutting to `limit` before dropping the scores <= 0.5, as the code
\* does, gives the result of dropping first and cutting afterwards, for every
\* list of scores and every limit.
C22_TruncateThenFilter ==
    res.op = "rank" => res.out = RankReference(res.similarities, res.limit)

\* records below the threshold came before and between records above it, and
\* the limit cut one record the threshold would have kept
C22_Witness ==
    /\ res.op = "rank"
    /\ Len(res.similarities) = 3
    /\ ~ScoreAboveHalf(res.similarities[1].score)
    /\ ScoreAboveHalf(res.similarities[2].score)
    /\ ScoreAboveHalf(res.similarities[3].score)
    /\ res.limit = 1
    /\ Len(res.out) = 1

BothCompleted == \A p \in Procs : calls[p].pc = "done"

\* what one initialize on this document set leaves, run on the store as it
\* was before the calls began
SingleInitialize(docs) ==
    initializePortfolioData(NewCall(res.before), docs, NoFault).db

\* C23: once two initialize calls on the same document set have both
\* completed, however their provider and store steps interleaved, the known
\* ids, the embedding records and the fingerprint are those one initialize
\* leaves; each call has made its own batch request.
C23_ConcurrentConverges ==
    (BothCompleted /\ calls[1].docs = calls[2].docs) =>
        /\ Redis = SingleInitialize(calls[1].docs)
        /\ \A p \in Procs : calls[p].batchCalls = 1

\* two calls on two documents overlapped, both sent a batch request and both
\* completed
C23_Witness ==
    /\ BothCompleted
    /\ calls[1].docs = calls[2].docs
    /\ Len(calls[1].docs) = 2
    /\ res.overlapped
    /\ \A p \in Procs : calls[p].batchCalls = 1

\* the record call p writes for the document of this id
RecordWrittenBy(p, id) ==
    LET docs == calls[p].docs
        g    == generateEmbeddings([i \in DOMAIN docs |-> docs[i].content], OkResponse)
        i    == CHOOSE j \in DOMAIN docs : docs[j].id = id
    IN  Some(EmbeddingRecord(docs[i], g.values, i))

\* C24 as stated: after two initialize calls on different document sets that
\* share ids have both completed, the records of the shared ids and the
\* fingerprint all come from the same one of the two calls.
C24_LastWriterWinsWholeSet ==
    (BothCompleted /\ calls[1].docs # calls[2].docs) =>
        \E w \in Procs :
            /\ portfolioHash = Some(generatePortfolioHash(JSONStringifyDocs(calls[w].docs)))
            /\ \A id \in IdsOf(calls[1].docs) \cap IdsOf(calls[2].docs) :
                  embeddingKeys[id] = RecordWrittenBy(w, id)

\* the place of a step in the order of section 4.3; 0 for the steps of an
\* initialize, which happen after either check
PhaseOf(step) ==
    CASE step = "initialized_check" -> 1
      [] step = "refresh_check" -> 2
      [] step \in {"cache_read", "embed", "cache_write"} -> 3
      [] step = "ids_read" -> 4
      [] step = "emb_read" -> 5
      [] OTHER -> 0

\* C25: within one search the initialized check, and the initialize it
\* starts, complete before the refresh check; the refresh check, and the
\* initialize it starts, complete before the query embedding is read from the
\* cache or generated; the query embedding is obtained before the known ids
\* and the stored embeddings are read.
C25_StepOrder ==
    res.op = "search" =>
        LET t == res.trace
        IN  /\ t[1] = "initialized_check"
            /\ \A i, j \in DOMAIN t :
                  (i < j /\ PhaseOf(t[i]) # 0 /\ PhaseOf(t[j]) # 0) =>
                      /\ PhaseOf(t[i]) <= PhaseOf(t[j])
                      /\ PhaseOf(t[i]) # 3 => PhaseOf(t[i]) < PhaseOf(t[j])
            /\ \A i \in DOMAIN t :
                  /\ t[i] = "initialize" =>
                        /\ t[i - 1] \in {"initialized_check", "refresh_check"}
                        /\ i < Len(t) => t[i + 1] = "initialized"
                  /\ t[i] = "initialized" => t[i - 1] = "initialize"
                  /\ (PhaseOf(t[i]) = 3 /\ i > 1) => PhaseOf(t[i - 1]) # 1
                  /\ PhaseOf(t[i]) \in {4, 5} => IsSome(res.queryEmbedding)
            /\ res.status = "ok" =>
                  { PhaseOf(t[i]) : i \in DOMAIN t } \ {0} = 1..5

\* a search on an empty store went through every step: check, initialize,
\* refresh check, query embedding generated and cached, both reads
C25_Witness ==
    /\ SearchReturned
    /\ res.trace = <<"initialized_check", "initialize", "initialized", "refresh_check",
                     "cache_read", "embed", "cache_write", "ids_read", "emb_read">>

\* the vectors generateEmbeddings returns for the contents of this set
EmbeddingsFor(docs) ==
    generateEmbeddings([i \in DOMAIN docs |-> docs[i].content], OkResponse).values

\* C26: a successful initialize(D) leaves as known ids the earlier ones
\* united with the ids of D, leaves the record of every id outside D as it
\* was and overwrites the record of every id of D; no step of any request
\* takes an id out of the known ids.
C26_InitializeOnlyAdds ==
    [][ /\ docIds \subseteq docIds'
        /\ (res'.op = "init" /\ res'.status = "ok") =>
              /\ docIds' = docIds \cup IdsOf(res'.docs)
              /\ \A d \in DocIdSet \ IdsOf(res'.docs) :
                    embeddingKeys'[d] = embeddingKeys[d]
              /\ \A i \in DOMAIN res'.docs :
                    embeddingKeys'[res'.docs[i].id] =
                        Some(EmbeddingRecord(res'.docs[i], EmbeddingsFor(res'.docs), i)) ]_vars

\* the set was initialized after a document had been removed from it: the
\* removed document's id and record are still in the store
C26_Witness ==
    /\ res.op = "init"
    /\ res.status = "ok"
    /\ res.docs = <<Doc("b", "hello")>>
    /\ docIds = {"a", "b"}
    /\ IsSome(embeddingKeys["a"])

\* the stored fingerprint is that of no release, or every document of that
\* release has its id among the known ids and a record stored under it
FingerprintAfterRecords ==
    \A r \in 1..LastRelease :
        portfolioHash = Some(generatePortfolioHash(JSONStringifyDocs(Releases[r])))
            => \A i \in DOMAIN Releases[r] :
                  /\ Releases[r][i].id \in docIds
                  /\ IsSome(embeddingKeys[Releases[r][i].id])

C29_RecordHoldsOwnVector ==
    [][ (res'.op = "init" /\ res'.status = "ok") =>
          \A i \in DOMAIN res'.docs :
              IsValidText(res'.docs[i].content) =>
                  /\ IsSome(embeddingKeys'[res'.docs[i].id])
                  /\ embeddingKeys'[res'.docs[i].id][1].embedding =
                        Some(ProviderEmbedding(Trim(res'.docs[i].content))) ]_vars

\* the part of C29 that holds: when no document of D has blank content,
\* every record holds its own document's vector
C29_AlignedWithoutBlanks ==
    [][ ( /\ res'.op = "init" /\ res'.status = "ok"
          /\ \A i \in DOMAIN res'.docs : IsValidText(res'.docs[i].content) ) =>
          \A i \in DOMAIN res'.docs :
              /\ IsSome(embeddingKeys'[res'.docs[i].id])
              /\ embeddingKeys'[res'.docs[i].id][1].embedding =
                    Some(ProviderEmbedding(Trim(res'.docs[i].content))) ]_vars

\* C30 as stated: the vector a search uses for its query, read from the cache
\* or generated, is the vector generateEmbedding returns for that query; so
\* also for a query that shares its cache key with an earlier query differing
\* in letter case.
C30_CacheTransparent ==
    (res.op = "search" /\ IsSome(res.queryEmbedding)) =>
        res.queryEmbedding = generateEmbedding(res.query, OkResponse).value

\* the part of C30 that holds: the vector is the query's own when it was
\* generated by this search or cached by a search for the same text
C30_TransparentForSameText ==
    ( /\ res.op = "search"
      /\ IsSome(res.queryEmbedding)
      /\ (res.cacheHit => res.cachedBefore) ) =>
        res.queryEmbedding = generateEmbedding(res.query, OkResponse).value

\* the request has no last user message with text
RequestInvalid(req) ==
    \/ ~IsSome(req.last)
    \/ req.last[1].role # "user"
    \/ Trim(QueryText(req.last[1])) = ""

RefererDenied(req) == req.production /\ req.referer # Some("allowed")

\* C28: a chat request that the rate limiter rejects is answered 429, one
\* whose last message is not a user message or has empty text 400, one that
\* in production carries no allow-listed referer 401; none of them calls
\* search, the embedding provider or the LLM, and none writes anything to the
\* store but the rate-limit counter.
C28_RejectedBeforeSearch ==
    [][ ( /\ res'.op = "post"
          /\ rlRes'.op = "check"
          /\ \/ ~rlRes'.result.allowed
             \/ RequestInvalid(res'.req)
             \/ RefererDenied(res'.req) ) =>
          /\ res'.http = IF ~rlRes'.result.allowed THEN 429
                         ELSE IF RequestInvalid(res'.req) THEN 400
                         ELSE 401
          /\ ~res'.searched
          /\ res'.batchCalls = 0
          /\ res'.embedCalls = 0
          /\ res'.llmCalls = 0
          /\ UNCHANGED <<docIds, embeddingKeys, portfolioHash, queryCache>> ]_vars

\* a well-formed request with an allowed referer was rejected by the rate
\* limiter on a store that was never initialized
C28_Witness ==
    /\ res.op = "post"
    /\ res.http = 429
    /\ ~rlRes.result.allowed
    /\ ~RequestInvalid(res.req)
    /\ ~RefererDenied(res.req)
    /\ docIds = {}

\* a second case of C28: in production a request without referer is
\* answered 401 and the empty store stays empty
C28_UnauthorizedWitness ==
    /\ res.op = "post"
    /\ res.http = 401
    /\ res.req.production
    /\ res.req.referer = None
    /\ StoreIsEmpty

\* C31 as stated: however concurrent checks for one identifier interleave,
\* no more than `limit` checks are answered allowed between the creation of
\* the counter key and its expiry, no store call failing.
C31_AtMostLimitAllowed == rlAllowed <= rlLimit

\* C32 as stated: a counter key that exists has an expiry, whatever the
\* interleaving of checks and key expiry, and a denied check carries a
\* retryAfter that is not negative.
C32_CounterKeyExpires ==
    /\ IsSome(rlKey) => rlKey[1].ttl > 0
    /\ (rlRes.op = "check" /\ ~rlRes.result.allowed) => rlRes.result.retryAfter[1] >= 0

====
